---------------------------- MODULE Spec2Model ----------------------------
(***************************************************************************)
(* A model of pdinklag/word-packing: the packed-word codec (get / set on   *)
(* an array of word packs) and the owning packed vectors built on it.      *)
(*                                                                         *)
(* Machine integers are scaled down: uintmax_t has UINTMAX_BITS bits (64   *)
(* in the source) and a word pack has PACK_BITS bits, a power of two not   *)
(* above UINTMAX_BITS.  Every arithmetic step keeps the width of the C++   *)
(* type it is computed in.                                                 *)
(***************************************************************************)
EXTENDS Integers, Sequences, FiniteSets, TLC

(***************************************************************************)
(* Machine words                                                           *)
(***************************************************************************)

\* Bits of uintmax_t (std::numeric_limits<uintmax_t>::digits), scaled down.
UINTMAX_BITS == 4

\* UINTMAX_MAX
UINTMAX_MAX == 2^UINTMAX_BITS - 1

\* The word pack types: std::numeric_limits<Pack>::digits for every eligible
\* Pack (WordPackEligible: unsigned, a power of two of bits), scaled down.
PackBitsSet == {2, UINTMAX_BITS}

\* What a shift of a uintmax_t by its full width yields.  The C++ standard
\* leaves it undefined; the amount is a run-time value in the code, so a
\* build executes a shift instruction, which either takes the amount modulo
\* the register width ("wrap") or shifts every bit out ("zero").
ShiftModes == {"wrap", "zero"}

\* Bits of uintmax_t values, least significant first.
RECURSIVE BitAndN(_, _, _)
BitAndN(x, y, n) ==
    IF n = 0 THEN 0
    ELSE (IF x % 2 = 1 /\ y % 2 = 1 THEN 1 ELSE 0)
         + 2 * BitAndN(x \div 2, y \div 2, n - 1)

\* x & y on uintmax_t
And(x, y) == BitAndN(x, y, UINTMAX_BITS)

\* ~x on uintmax_t
Not(x) == UINTMAX_MAX - x

\* x | y on uintmax_t
Or(x, y) == Not(And(Not(x), Not(y)))

\* x << s on uintmax_t; s >= UINTMAX_BITS is undefined in C++ and resolved
\* by the shift mode ub.
Shl(x, s, ub) ==
    IF s < UINTMAX_BITS THEN (x * 2^s) % 2^UINTMAX_BITS
    ELSE IF ub = "wrap" THEN (x * 2^(s % UINTMAX_BITS)) % 2^UINTMAX_BITS
    ELSE 0

\* x << s where the code's own arithmetic keeps s below UINTMAX_BITS
ShlDefined(x, s) == (x * 2^s) % 2^UINTMAX_BITS

\* x >> s on uintmax_t, s < UINTMAX_BITS
Shr(x, s) == x \div 2^s

\* Conversion of a uintmax_t to the Pack type on assignment to data[.]
ToPack(x, B) == x % 2^B

(***************************************************************************)
(* word_packing/internal/util.hpp, word_packing/util.hpp                   *)
(***************************************************************************)

\* A mask computed with one shift, by bits: ~(UINTMAX_MAX << bits) on a
\* machine that takes the amount modulo the width
low_mask_one_shift(bits) == Not(Shl(UINTMAX_MAX, bits, "wrap"))

\* ~((UINTMAX_MAX << (bits - 1)) << 1), bits > 0
low_mask(bits) == Not(ShlDefined(ShlDefined(UINTMAX_MAX, bits - 1), 1))

\* ~(UINTMAX_MAX << bits), bits < UINTMAX_BITS
low_mask0(bits) == Not(ShlDefined(UINTMAX_MAX, bits))

\* The bits of size_t.  They are those of uintmax_t on the machines the
\* library is built for; scaled down less than uintmax_t, so that the vectors
\* of the programs below are as far from the wrap-around of size_t as
\* vectors that fit into memory are on a 64-bit machine.
SIZE_BITS == 6

\* SIZE_MAX
SIZE_MAX == 2^SIZE_BITS - 1

\* ((a + b) - 1ULL) / b on size_t
idiv_ceil(a, b) == ((((a + b) % 2^SIZE_BITS) + SIZE_MAX) % 2^SIZE_BITS) \div b

\* idiv_ceil(num * width, digits of Pack), the product on size_t
num_packs_required(num, width, B) == idiv_ceil((num * width) % 2^SIZE_BITS, B)

(***************************************************************************)
(* word_packing/internal/impl.hpp: the codec.  data is the array of word   *)
(* packs (a function on 0 .. len-1), B the bits of a pack, ub the shift    *)
(* mode of the build.                                                      *)
(***************************************************************************)

\* A get that never looks at the pack right of data[a]
get_first_pack_only(data, i, width, mask, B, ub) ==
    LET j  == i * width
        a  == j \div B
        da == j % B
    IN  And(Shr(data[a], da), mask)

\* A get that does not mask the combined packs
get_unmasked(data, i, width, mask, B, ub) ==
    LET j    == i * width
        a    == j \div B
        b    == (j + width - 1) \div B
        da   == j % B
        wa   == B - da
    IN  Or(Shl(data[b], wa, ub), Shr(data[a], da))

\* get(Pack const* data, size_t i, size_t width, uintmax_t mask)
get(data, i, width, mask, B, ub) ==
    LET j    == i * width
        a    == j \div B
        b    == (j + width - 1) \div B
        da   == j % B
        wa   == B - da
        a_hi == Shr(data[a], da)
        b_lo == data[b]
    IN  And(Or(Shl(b_lo, wa, ub), a_hi), mask)

\* get<width>(Pack const* data, size_t i)
get_w(data, i, width, B, ub) ==
    IF width = 1
    THEN LET a    == i \div B
             j    == i % B
             mask == ShlDefined(1, j)
         IN  IF And(data[a], mask) # 0 THEN 1 ELSE 0
    ELSE LET mask    == low_mask(width)
             aligned == (B % width) = 0
             j       == i * width
             a       == j \div B
             da      == j % B
             a_hi    == Shr(data[a], da)
         IN  IF aligned
             THEN And(a_hi, mask)
             ELSE LET b    == (j + width - 1) \div B
                      wa   == B - da
                      b_lo == data[b]
                  IN  And(Or(Shl(b_lo, wa, ub), a_hi), mask)

\* An infix write that forgets the bits of data[a] above the written integer
set_infix_drop_high(data, a, da, v, width, B) ==
    LET xa      == data[a]
        mask_lo == low_mask0(da)
    IN  [data EXCEPT ![a] = ToPack(Or(And(xa, mask_lo), ShlDefined(v, da)), B)]

\* The branch of set that writes the bits as an infix of data[a]
set_infix(data, a, da, v, width, B) ==
    LET xa      == data[a]
        mask_lo == low_mask0(da)
        mask_hi == ShlDefined(ShlDefined(Not(mask_lo), width - 1), 1)
    IN  [data EXCEPT ![a] =
            ToPack(Or(Or(And(xa, mask_lo), ShlDefined(v, da)), And(xa, mask_hi)), B)]

\* The branch of set that writes a suffix of data[a] and a prefix of data[b]
set_straddle(data, a, b, da, v, width, B) ==
    LET wa    == B - da
        wb    == width - wa
        a_lo  == And(data[a], low_mask0(da))
        v_lo  == And(v, low_mask(wa))
        data1 == [data EXCEPT ![a] = ToPack(Or(ShlDefined(v_lo, da), a_lo), B)]
        b_hi  == Shr(data1[b], wb)
        v_hi  == Shr(v, wa)
    IN  [data1 EXCEPT ![b] = ToPack(Or(ShlDefined(b_hi, wb), v_hi), B)]

\* set(Pack* data, size_t i, uintmax_t x, size_t width, uintmax_t mask)
set(data, i, x, width, mask, B) ==
    LET v  == And(x, mask)
        j  == i * width
        a  == j \div B
        b  == (j + width - 1) \div B
        da == j % B
    IN  IF a = b
        THEN set_infix(data, a, da, v, width, B)
        ELSE set_straddle(data, a, b, da, v, width, B)

\* The width == 1 branch of set<width>: clear the bit, set it if bool(x)
set_bit(data, i, x, B) ==
    LET b    == (x # 0)
        a    == i \div B
        j    == i % B
        mask == ShlDefined(1, j)
    IN  [data EXCEPT ![a] =
            ToPack(Or(And(data[a], Not(mask)), IF b THEN mask ELSE 0), B)]

\* set<width>(Pack* data, size_t i, uintmax_t x)
set_w(data, i, x, width, B) ==
    IF width = 1
    THEN set_bit(data, i, x, B)
    ELSE LET mask    == low_mask(width)
             aligned == (B % width) = 0
             v       == And(x, mask)
             j       == i * width
             a       == j \div B
             b       == (j + width - 1) \div B
             da      == j % B
         IN  IF aligned \/ a = b
             THEN set_infix(data, a, da, v, width, B)
             ELSE set_straddle(data, a, b, da, v, width, B)

\* The amounts of the shifts get(data, i, width, mask) executes:
\* data[a] >> da and b_lo << wa
get_shifts(i, width, B) ==
    LET j  == i * width
        da == j % B
        wa == B - da
    IN  {da, wa}

\* The amounts of the shifts get<width>(data, i) executes: 1ULL << j for
\* width 1, data[a] >> da, and b_lo << wa if B is no multiple of width
get_w_shifts(i, width, B) ==
    IF width = 1 THEN {i % B}
    ELSE LET j  == i * width
             da == j % B
             wa == B - da
         IN  IF (B % width) = 0 THEN {width - 1, 1, da} ELSE {width - 1, 1, da, wa}

\* The amounts of the shifts of the two branches of set: low_mask0(da),
\* ~mask_lo << (width-1) << 1 and v << da in the first; low_mask0(da),
\* low_mask(wa), v_lo << da, data[b] >> wb, v >> wa and b_hi << wb in the
\* second
set_branch_shifts(infix, da, width, B) ==
    IF infix THEN {da, width - 1, 1}
    ELSE LET wa == B - da
             wb == width - wa
         IN  {da, wa - 1, 1, wb, wa}

\* The amounts of the shifts set(data, i, x, width, mask) executes
set_shifts(i, width, B) ==
    LET j  == i * width
        a  == j \div B
        b  == (j + width - 1) \div B
    IN  set_branch_shifts(a = b, j % B, width, B)

\* The amounts of the shifts set<width>(data, i, x) executes, low_mask(width)
\* included
set_w_shifts(i, width, B) ==
    IF width = 1 THEN {i % B}
    ELSE LET j  == i * width
             a  == j \div B
             b  == (j + width - 1) \div B
         IN  {width - 1, 1} \cup
             set_branch_shifts((B % width) = 0 \/ a = b, j % B, width, B)

(***************************************************************************)
(* int_container_impl.hpp: the codec used by pdinklag::PackedIntVector     *)
(***************************************************************************)

\* get_rt(size_t i, PackWord const* data, size_t width, size_t mask)
get_rt(i, data, width, mask, B, ub) ==
    LET j    == i * width
        a    == j \div B
        b    == (j + width - 1) \div B
        da   == j % B
        wa   == B - da
        a_hi == Shr(data[a], da)
        b_lo == data[b]
    IN  And(Or(Shl(b_lo, wa, ub), a_hi), mask)

\* set_rt(size_t i, uintmax_t x, PackWord* data, size_t width, size_t mask)
set_rt(i, x, data, width, mask, B) ==
    LET v  == And(x, mask)
        j  == i * width
        a  == j \div B
        b  == (j + width - 1) \div B
        da == j % B
    IN  IF a = b
        THEN LET xa      == data[a]
                 mask_lo == low_mask0(da)
                 mask_hi == ShlDefined(ShlDefined(Not(mask_lo), width - 1), 1)
             IN  [data EXCEPT ![a] =
                     ToPack(Or(Or(And(xa, mask_lo), ShlDefined(v, da)),
                               And(xa, mask_hi)), B)]
        ELSE LET wa    == B - da
                 wb    == width - wa
                 a_lo  == And(data[a], low_mask0(da))
                 v_lo  == And(v, low_mask(wa))
                 data1 == [data EXCEPT ![a] = ToPack(Or(ShlDefined(v_lo, da), a_lo), B)]
                 b_hi  == Shr(data1[b], wb)
                 v_hi  == Shr(v, wa)
             IN  [data1 EXCEPT ![b] = ToPack(Or(ShlDefined(b_hi, wb), v_hi), B)]

(***************************************************************************)
(* State                                                                   *)
(***************************************************************************)

VARIABLES
    pack_bits,   \* std::numeric_limits<Pack>::digits of the Pack type in use
    buf,         \* codec: the caller's array of word packs
    buf_before,  \* codec: the array as it was before the last set
    last_set,    \* codec: the last set call (variant, i, x, width), or NoSet
    last_get,    \* codec: the last get call (variant, i, width, result), or NoGet
    phase,       \* codec: "fresh", "written" (after set), "read" (after get)
    kind,        \* vectors: "fixed" (PackedFixedWidthIntVector<width_, Pack>) or
                 \*          "runtime" (PackedIntVector<Pack>)
    tparam_width,\* vectors: the template parameter width_ of the fixed kind
    vec,         \* vectors: the members of every vector object
    heap,        \* vectors: the live arrays of packs, by address
    fault,       \* vectors: "none", or how the program died
    last,        \* vectors: how the last member function call ended
    copy_of,     \* vectors: for every object, the object it is a copy of
    abstract,    \* vectors: the list of values object "v" stands for
    call,        \* one vector: the last member function called on "v" and
                 \*             its arguments
    before,      \* one vector: the members of "v" and the heap before that call
    iters,       \* iteration: the iterators the program holds
    walk         \* iteration: the values a loop from begin() has yielded

codec_vars == <<buf, buf_before, last_set, last_get, phase>>

vector_vars == <<kind, tparam_width, vec, heap, fault, last, copy_of, abstract>>

trace_vars == <<call, before, iters, walk>>

vars == <<pack_bits, codec_vars, vector_vars, trace_vars>>

NotCalled == [op |-> "none", n |-> 0, x |-> 0, width |-> 0]

NoIterators == << >>

NoSet == [variant |-> "none", i |-> 0, x |-> 0, width |-> 0]

NoGet == [variant |-> "none", i |-> 0, width |-> 0, result |-> 0]

(***************************************************************************)
(* The codec on a caller-provided array (test_access_impl.hpp: an array of *)
(* num_packs_required packs, written with set and read back with get)      *)
(***************************************************************************)

\* Number of word packs of the caller's array
NumPacks == 2

\* Contents a word pack of the caller's array starts with: all zero, all one,
\* and the two alternating patterns (storage is not assumed to be cleared)
PackPatterns(B) ==
    LET alt == (2^B - 1) \div 3 IN {0, 2^B - 1, alt, 2 * alt}

\* The widths supported for a pack of B bits
Widths(B) == 1 .. B

\* The indices of the width-bit integers that lie inside an array of n packs
Indices(n, width, B) == {i \in 0 .. (n * B) : (i + 1) * width <= n * B}

\* The values passed to set
Values == 0 .. UINTMAX_MAX

CodecInit ==
    /\ pack_bits \in PackBitsSet
    /\ buf \in [0 .. NumPacks - 1 -> PackPatterns(pack_bits)]
    /\ buf_before = buf
    /\ last_set = NoSet
    /\ last_get = NoGet
    /\ phase = "fresh"
    /\ kind = "none"
    /\ tparam_width = 0
    /\ vec = << >>
    /\ heap = << >>
    /\ fault = "none"
    /\ last = << >>
    /\ copy_of = << >>
    /\ abstract = << >>
    /\ call = NotCalled /\ before = << >> /\ iters = NoIterators /\ walk = << >>

\* internal::set(data, i, x, width, low_mask(width)), as PackedIntAccessor::set
CodecSet(i, x, width) ==
    /\ phase = "fresh"
    /\ buf' = set(buf, i, x, width, low_mask(width), pack_bits)
    /\ buf_before' = buf
    /\ last_set' = [variant |-> "runtime", i |-> i, x |-> x, width |-> width]
    /\ phase' = "written"
    /\ UNCHANGED <<pack_bits, last_get, vector_vars, trace_vars>>

\* internal::set<width>(data, i, x), as PackedFixedWidthIntAccessor::set
CodecSetW(i, x, width) ==
    /\ phase = "fresh"
    /\ buf' = set_w(buf, i, x, width, pack_bits)
    /\ buf_before' = buf
    /\ last_set' = [variant |-> "fixed", i |-> i, x |-> x, width |-> width]
    /\ phase' = "written"
    /\ UNCHANGED <<pack_bits, last_get, vector_vars, trace_vars>>

\* internal::get(data, i, width, low_mask(width)): reads back the integer
\* written by the last set, at its index and width
CodecGet(i, ub) ==
    /\ phase = "written"
    /\ last_get' = [variant |-> "runtime", i |-> i, width |-> last_set.width,
                    result |-> get(buf, i, last_set.width,
                                   low_mask(last_set.width), pack_bits, ub)]
    /\ phase' = "read"
    /\ UNCHANGED <<pack_bits, buf, buf_before, last_set, vector_vars, trace_vars>>

\* internal::get<width>(data, i): reads back the integer written by the last
\* set, at its index and width
CodecGetW(i, ub) ==
    /\ phase = "written"
    /\ last_get' = [variant |-> "fixed", i |-> i, width |-> last_set.width,
                    result |-> get_w(buf, i, last_set.width, pack_bits, ub)]
    /\ phase' = "read"
    /\ UNCHANGED <<pack_bits, buf, buf_before, last_set, vector_vars, trace_vars>>

CodecNext ==
    \/ \E width \in Widths(pack_bits) :
         \E i \in Indices(NumPacks, width, pack_bits) : \E x \in Values :
            CodecSet(i, x, width)
    \/ \E width \in Widths(pack_bits) :
         \E i \in Indices(NumPacks, width, pack_bits) : \E x \in Values :
            CodecSetW(i, x, width)
    \/ \E ub \in ShiftModes : CodecGet(last_set.i, ub)
    \/ \E ub \in ShiftModes : CodecGetW(last_set.i, ub)

SpecCodec == CodecInit /\ [][CodecNext]_vars

(***************************************************************************)
(* Properties of the codec                                                 *)
(***************************************************************************)

\* Global bit g of an array of packs: bit (g mod B) of pack (g div B)
BitOf(data, g, B) == (data[g \div B] \div 2^(g % B)) % 2

\* The last set wrote an integer that lies in two packs
LastSetStraddles ==
    (last_set.i * last_set.width) \div pack_bits
        # (last_set.i * last_set.width + last_set.width - 1) \div pack_bits

\* C1: runtime-width round trip with truncation.  After
\* set(data, i, x, w, low_mask(w)), get(data, i, w, low_mask(w)) returns the
\* low w bits of x, for every pack type, width, index, prior content and x.
C1_RoundTripRuntime ==
    (phase = "read" /\ last_set.variant = "runtime" /\ last_get.variant = "runtime")
        => last_get.result = last_set.x % 2^last_set.width

\* C1 happens: a value with a bit above the width was written at one bit less
\* than the full width into an integer that straddles two packs, and read back
C1_Witness ==
    /\ phase = "read"
    /\ last_set.variant = "runtime" /\ last_get.variant = "runtime"
    /\ last_set.width = UINTMAX_BITS - 1
    /\ last_set.x = UINTMAX_MAX
    /\ LastSetStraddles
    /\ last_get.result = 2^(UINTMAX_BITS - 1) - 1

\* C2: compile-time-width round trip with truncation.  After set<w>(data, i, x),
\* get<w>(data, i) returns the low w bits of x, for every width including the
\* width-1 bit specialization (where writing 2 stores 0).
C2_RoundTripFixed ==
    (phase = "read" /\ last_set.variant = "fixed" /\ last_get.variant = "fixed")
        => last_get.result = last_set.x % 2^last_set.width

\* C3: set never disturbs neighbouring bits.  Every bit of the array outside
\* the global bit range [i*w, i*w + w) is unchanged by set (all variants), and
\* so get(j) is unchanged for every j # i.
C3_SetFrame ==
    phase = "written" =>
        LET w  == last_set.width
            lo == last_set.i * w
        IN  /\ \A g \in 0 .. NumPacks * pack_bits - 1 :
                 (g < lo \/ g >= lo + w)
                    => BitOf(buf, g, pack_bits) = BitOf(buf_before, g, pack_bits)
            /\ \A j \in Indices(NumPacks, w, pack_bits) \ {last_set.i} :
                 \A ub \in ShiftModes :
                    /\ get(buf, j, w, low_mask(w), pack_bits, ub)
                         = get(buf_before, j, w, low_mask(w), pack_bits, ub)
                    /\ get_w(buf, j, w, pack_bits, ub)
                         = get_w(buf_before, j, w, pack_bits, ub)

\* C3 happens: a set changed an integer that straddles two packs, with bits
\* of other integers below it in the first pack and above it in the second
C3_Witness ==
    /\ phase = "written"
    /\ LastSetStraddles
    /\ buf # buf_before
    /\ last_set.i > 0
    /\ (last_set.i + 1) * last_set.width < NumPacks * pack_bits

\* C7: the runtime-width and the compile-time-width codec are observationally
\* identical.  set<w>(data, i, x) and set(data, i, x, w, low_mask(w)) produce
\* the same array, and get<w>(data, i) = get(data, i, w, low_mask(w)), for every
\* pack type, width (including 1), index, value and content.
C7_VariantsAgree ==
    phase = "written" =>
        LET w == last_set.width
            i == last_set.i
        IN  /\ set_w(buf_before, i, last_set.x, w, pack_bits)
                 = set(buf_before, i, last_set.x, w, low_mask(w), pack_bits)
            /\ \A ub \in ShiftModes :
                 get_w(buf, i, w, pack_bits, ub)
                    = get(buf, i, w, low_mask(w), pack_bits, ub)

\* The integer whose bit k, k < n, is global bit g + k of the array
RECURSIVE BitsValue(_, _, _, _)
BitsValue(data, g, n, B) ==
    IF n = 0 THEN 0
    ELSE BitOf(data, g, B) + 2 * BitsValue(data, g + 1, n - 1, B)

\* C24: get(data, i, w, low_mask(w)) and get<w>(data, i) return the integer
\* whose bit k, 0 <= k < w, is global bit i*w + k of the array, bit (g mod B)
\* of pack (g div B), whether the integer lies in one pack or in two; the
\* high bits of the second pack do not show in the result.
C24_BitLayout ==
    phase = "read" =>
        last_get.result =
            BitsValue(buf, last_get.i * last_get.width, last_get.width, pack_bits)

\* C24 witness: a get returned an integer that lies in two packs, the second
\* of which has all its bits set, and the result has a bit that is 0.
C24_Witness ==
    /\ phase = "read"
    /\ LastSetStraddles
    /\ buf[(last_get.i * last_get.width + last_get.width - 1) \div pack_bits]
           = 2^pack_bits - 1
    /\ last_get.result < 2^last_get.width - 1
    /\ last_get.result > 0

\* C26: every shift get and set execute, in the runtime-width and in the
\* compile-time-width variant, is by less than the bits of uintmax_t, also
\* the shift b_lo << wa of get for an integer that starts at a pack border.
C26_NoFullWidthShift ==
    /\ phase \in {"written", "read"} =>
          \A amount \in (IF last_set.variant = "runtime"
                         THEN set_shifts(last_set.i, last_set.width, pack_bits)
                         ELSE set_w_shifts(last_set.i, last_set.width, pack_bits)) :
              amount < UINTMAX_BITS
    /\ phase = "read" =>
          \A amount \in (IF last_get.variant = "runtime"
                         THEN get_shifts(last_get.i, last_get.width, pack_bits)
                         ELSE get_w_shifts(last_get.i, last_get.width, pack_bits)) :
              amount < UINTMAX_BITS

(***************************************************************************)
(* The owning vectors: PackedFixedWidthIntVector<width_, Pack> (kind       *)
(* "fixed", packed_fixed_width_int_vector.hpp) and PackedIntVector<Pack>   *)
(* (kind "runtime", packed_int_vector.hpp).  The two classes share the     *)
(* code of every member function but for the width: a template parameter   *)
(* and internal::get<width_> / set<width_> in the first, the members       *)
(* width_ and mask_ and get_rt / set_rt in the second.                     *)
(*                                                                         *)
(* A member function is an operator from the members of *this (a record)   *)
(* and the heap to the set of its possible outcomes: the members and the   *)
(* heap afterwards, and a status, "ok", "bad_alloc" (std::bad_alloc left   *)
(* the function), or the way the program died: "segv" (nullptr             *)
(* dereferenced), "overflow" (access outside an array of packs), "assert"  *)
(* (a failed assert of a build without NDEBUG).                            *)
(***************************************************************************)

\* The vector objects of the program
Objects == {"v", "other"}

\* nullptr
Null == 0

\* Heap addresses: one array per object and the array of a local new_vec
Addresses == 1 .. Cardinality(Objects) + 1

\* An object outside its lifetime
Unconstructed ==
    [alive |-> FALSE, size |-> 0, capacity |-> 0, width |-> 0, mask |-> 0, data |-> Null]

Outcome(self, h, status) == [self |-> self, heap |-> h, status |-> status]

Min(a, b) == IF a <= b THEN a ELSE b

\* The address operator new[] returns
FreeAddr(h) ==
    CHOOSE p \in Addresses \ DOMAIN h : \A q \in Addresses \ DOMAIN h : p <= q

\* An allocation that leaves the packs as the allocator found them
make_unique_for_overwrite(h, n) ==
    { [ptr |-> FreeAddr(h), heap |-> (FreeAddr(h) :> [k \in 0 .. n - 1 |-> 1]) @@ h,
       status |-> "ok"],
      [ptr |-> Null, heap |-> h, status |-> "bad_alloc"] }

\* std::make_unique<Pack[]>(n): a value-initialized (zeroed) array of n packs,
\* or std::bad_alloc
make_unique(h, n) ==
    { [ptr |-> FreeAddr(h), heap |-> (FreeAddr(h) :> [k \in 0 .. n - 1 |-> 0]) @@ h,
       status |-> "ok"],
      [ptr |-> Null, heap |-> h, status |-> "bad_alloc"] }

\* std::unique_ptr giving up the array it owns, if any (reset, destructor)
Release(h, p) == [q \in DOMAIN h \ {p} |-> h[q]]

\* PACK_WORD_MAX >> s on size_t; s equal to the width of size_t is undefined
ShrPackMax(B, s, ub) ==
    IF s < UINTMAX_BITS THEN Shr(2^B - 1, s)
    ELSE IF ub = "wrap" THEN Shr(2^B - 1, s % UINTMAX_BITS)
    ELSE 0

\* PackedFixedWidthIntVector() / PackedIntVector()
DefaultVector(k, width) ==
    [alive |-> TRUE, size |-> 0, capacity |-> 0,
     width |-> IF k = "fixed" THEN width ELSE 0, mask |-> 0, data |-> Null]

\* A sized constructor that allocates one pack per element
VectorWithPackPerItem(k, size, width, B, h, ub) ==
    LET rec == [alive |-> TRUE, size |-> size, capacity |-> size, width |-> width,
                mask |-> IF k = "runtime" THEN ShrPackMax(B, B - width, ub) ELSE 0,
                data |-> Null]
    IN  IF size > 0
        THEN { Outcome([rec EXCEPT !.data = m.ptr], m.heap, m.status) :
                   m \in make_unique(h, size) }
        ELSE { Outcome(rec, h, "ok") }

\* PackedFixedWidthIntVector(size_t size) / PackedIntVector(size_t size, size_t width)
\* for one resolution of the shift in the initializer of mask_
VectorWith(k, size, width, B, h, ub) ==
    LET rec   == [alive |-> TRUE, size |-> size, capacity |-> size, width |-> width,
                  mask |-> IF k = "runtime" THEN ShrPackMax(B, B - width, ub) ELSE 0,
                  data |-> Null]
        built == IF size > 0
                 THEN { Outcome([rec EXCEPT !.data = m.ptr], m.heap, m.status) :
                            m \in make_unique(h, num_packs_required(size, width, B)) }
                 ELSE { Outcome(rec, h, "ok") }
    IN  IF k = "runtime" /\ width = 0
        THEN built \cup { Outcome(rec, h, "assert") }
        ELSE built

Vector(k, size, width, B, h) ==
    UNION { VectorWith(k, size, width, B, h, ub) : ub \in ShiftModes }

\* The packs that get(i) and set(i, x) of a vector touch
PacksOf(k, i, width, B) ==
    LET j == (i * width) % 2^SIZE_BITS
    IN  IF k = "fixed" /\ width = 1 THEN {i \div B}
        ELSE IF k = "fixed" /\ B % width = 0 THEN {j \div B}
        ELSE {j \div B, ((j + width - 1) % 2^SIZE_BITS) \div B}

\* Whether get(i) / set(i, x) stays inside the vector's array.  With width_ == 0
\* (a default-constructed PackedIntVector) the right border (j + width - 1) / B
\* wraps around and lies outside every array.
AccessStatus(k, rec, h, i, B) ==
    IF rec.data = Null THEN "segv"
    ELSE IF rec.width = 0 THEN "overflow"
    ELSE IF PacksOf(k, i, rec.width, B) \subseteq DOMAIN h[rec.data] THEN "ok"
    ELSE "overflow"

\* get(size_t i) of a vector whose array holds the packs of i, for one
\* resolution of its shift
vector_get_with(k, rec, h, i, B, ub) ==
    IF k = "fixed"
    THEN get_w(h[rec.data], i, rec.width, B, ub)
    ELSE get_rt(i, h[rec.data], rec.width, rec.mask, B, ub)

\* The values get(size_t i) can return
vector_get(k, rec, h, i, B) ==
    { vector_get_with(k, rec, h, i, B, ub) : ub \in ShiftModes }

\* The array after set(size_t i, uintmax_t x) of a vector
vector_set(k, rec, data, i, x, B) ==
    IF k = "fixed"
    THEN set_w(data, i, x, rec.width, B)
    ELSE set_rt(i, x, data, rec.width, rec.mask, B)

\* What a write past the end of the array at p can leave behind: nothing
\* visible, or one pack of another live array overwritten
Clobbered(h, p, B) ==
    {h} \cup UNION { UNION { { [h EXCEPT ![q][j] = val] : val \in 0 .. 2^B - 1 } :
                                j \in DOMAIN h[q] } : q \in DOMAIN h \ {p} }

\* set(size_t i, uintmax_t x): no bounds are checked
set_item(k, rec, h, i, x, B) ==
    LET st == AccessStatus(k, rec, h, i, B)
    IN  IF st = "ok"
        THEN { Outcome(rec, [h EXCEPT ![rec.data] = vector_set(k, rec, @, i, x, B)], "ok") }
        ELSE IF st = "segv"
        THEN { Outcome(rec, h, "segv") }
        ELSE { Outcome(rec, g, "overflow") : g \in Clobbered(h, rec.data, B) }

\* std::copy that copies nothing
copy_packs_none(h, src, n, dst) == [heap |-> h, status |-> "ok"]

\* std::copy(src, src + n, dst) on arrays of packs
copy_packs(h, src, n, dst) ==
    IF n = 0 THEN [heap |-> h, status |-> "ok"]
    ELSE IF src = Null \/ dst = Null THEN [heap |-> h, status |-> "segv"]
    ELSE IF ~(0 .. n - 1 \subseteq DOMAIN h[src]) \/ ~(0 .. n - 1 \subseteq DOMAIN h[dst])
    THEN [heap |-> h, status |-> "overflow"]
    ELSE [heap |-> [h EXCEPT ![dst] =
                       [j \in DOMAIN h[dst] |-> IF j < n THEN h[src][j] ELSE h[dst][j]]],
          status |-> "ok"]

\* for(i < n) new_vec.set(i, get(i))
RECURSIVE copy_items(_, _, _, _, _, _, _)
copy_items(k, rec, new_vec, h, i, n, B) ==
    IF i >= n THEN { [heap |-> h, status |-> "ok"] }
    ELSE IF AccessStatus(k, rec, h, i, B) # "ok"
    THEN { [heap |-> h, status |-> AccessStatus(k, rec, h, i, B)] }
    ELSE IF AccessStatus(k, new_vec, h, i, B) # "ok"
    THEN { [heap |-> h, status |-> AccessStatus(k, new_vec, h, i, B)] }
    ELSE UNION { copy_items(k, rec, new_vec,
                            [h EXCEPT ![new_vec.data] = vector_set(k, new_vec, @, i, x, B)],
                            i + 1, n, B)
                 : x \in vector_get(k, rec, h, i, B) }

\* *this = std::move(new_vec) for the local new_vec, whose destructor then
\* finds nothing to free: the defaulted move assignment
adopt(rec, new_vec, h) ==
    Outcome(new_vec, Release(h, rec.data), "ok")

\* An exception (or the end of the program) while the local new_vec is alive:
\* *this keeps its members, the array of new_vec is freed
unwind(rec, new_vec, h, status) ==
    Outcome(rec, Release(h, new_vec.data), status)

\* resize that copies packs although the width changes
resize_copy_packs(k, rec, h, size, width, B) ==
    IF width = rec.width /\ size <= rec.capacity
    THEN { Outcome([rec EXCEPT !.size = size], h, "ok") }
    ELSE UNION {
           IF c.status # "ok" THEN { Outcome(rec, h, c.status) }
           ELSE LET done == copy_packs(c.heap, rec.data,
                                num_packs_required(Min(rec.size, size), rec.width, B),
                                c.self.data)
                IN  { IF done.status # "ok"
                      THEN unwind(rec, c.self, done.heap, done.status)
                      ELSE adopt(rec, c.self, done.heap) }
           : c \in Vector(k, size, width, B, h) }

\* resize that takes every size for one within the capacity
resize_in_place(k, rec, h, size, width, B) ==
    { Outcome([rec EXCEPT !.size = size], h, "ok") }

\* resize(size_t size) / resize(size_t size, size_t width); the fixed kind
\* has no width argument (width = width_)
resize(k, rec, h, size, width, B) ==
    IF width = rec.width /\ size <= rec.capacity
    THEN { Outcome([rec EXCEPT !.size = size], h, "ok") }
    ELSE UNION {
           IF c.status # "ok" THEN { Outcome(rec, h, c.status) }
           ELSE LET copy_num == Min(rec.size, size)
                    copied == IF rec.width = width
                              THEN { copy_packs(c.heap, rec.data,
                                         num_packs_required(copy_num, rec.width, B),
                                         c.self.data) }
                              ELSE copy_items(k, rec, c.self, c.heap, 0, copy_num, B)
                IN  { IF done.status # "ok"
                      THEN unwind(rec, c.self, done.heap, done.status)
                      ELSE adopt(rec, c.self, done.heap)
                      : done \in copied }
           : c \in Vector(k, size, width, B, h) }

\* reserve that rounds the requested capacity up to an even number
reserve_rounded(k, rec, h, capacity, B) ==
    IF capacity > rec.capacity
    THEN UNION {
           IF c.status # "ok" THEN { Outcome(rec, h, c.status) }
           ELSE LET done == copy_packs(c.heap, rec.data,
                                num_packs_required(rec.size, rec.width, B), c.self.data)
                IN  IF done.status # "ok"
                    THEN { unwind(rec, c.self, done.heap, done.status) }
                    ELSE { adopt(rec, [c.self EXCEPT !.size = rec.size], done.heap) }
           : c \in Vector(k, capacity + (capacity % 2), rec.width, B, h) }
    ELSE { Outcome(rec, h, "ok") }

\* reserve(size_t capacity)
reserve(k, rec, h, capacity, B) ==
    IF capacity > rec.capacity
    THEN UNION {
           IF c.status # "ok" THEN { Outcome(rec, h, c.status) }
           ELSE LET done == copy_packs(c.heap, rec.data,
                                num_packs_required(rec.size, rec.width, B), c.self.data)
                IN  IF done.status # "ok"
                    THEN { unwind(rec, c.self, done.heap, done.status) }
                    ELSE { IF r.status # "ok"
                           THEN unwind(rec, r.self, r.heap, r.status)
                           ELSE adopt(rec, r.self, r.heap)
                           : r \in resize(k, c.self, done.heap, rec.size, c.self.width, B) }
           : c \in Vector(k, capacity, rec.width, B, h) }
    ELSE { Outcome(rec, h, "ok") }

\* shrink_to_fit that adopts the new array without copying into it
shrink_to_fit_uncopied(k, rec, h, B) ==
    IF rec.size < rec.capacity
    THEN { IF c.status # "ok" THEN Outcome(rec, h, c.status) ELSE adopt(rec, c.self, c.heap)
           : c \in Vector(k, rec.size, rec.width, B, h) }
    ELSE { Outcome(rec, h, "ok") }

\* shrink_to_fit()
shrink_to_fit(k, rec, h, B) ==
    IF rec.size < rec.capacity
    THEN UNION {
           IF c.status # "ok" THEN { Outcome(rec, h, c.status) }
           ELSE LET packs == copy_packs(c.heap, rec.data,
                                 num_packs_required(rec.size, rec.width, B), c.self.data)
                IN  IF packs.status # "ok"
                    THEN { unwind(rec, c.self, packs.heap, packs.status) }
                    ELSE { IF items.status # "ok"
                           THEN unwind(rec, c.self, items.heap, items.status)
                           ELSE adopt(rec, c.self, items.heap)
                           : items \in copy_items(k, rec, c.self, packs.heap, 0, rec.size, B) }
           : c \in Vector(k, rec.size, rec.width, B, h) }
    ELSE { Outcome(rec, h, "ok") }

\* clear that gives the array back
clear_and_release(rec, h) ==
    { Outcome([rec EXCEPT !.size = 0, !.capacity = 0, !.data = Null],
              Release(h, rec.data), "ok") }

\* clear()
clear(rec, h) == { Outcome([rec EXCEPT !.size = 0], h, "ok") }

\* push_back that grows a full vector by one element
push_back_grow_by_one(k, rec, h, x, B) ==
    LET grown == IF rec.size >= rec.capacity
                 THEN reserve(k, rec, h, rec.capacity + 1, B)
                 ELSE { Outcome(rec, h, "ok") }
    IN  UNION { IF g.status # "ok" THEN {g}
                ELSE set_item(k, [g.self EXCEPT !.size = @ + 1], g.heap, g.self.size, x, B)
                : g \in grown }

\* push_back(uintmax_t const x): set(size_++, x) increments before set runs
push_back(k, rec, h, x, B) ==
    LET grown == IF rec.size >= rec.capacity
                 THEN reserve(k, rec, h,
                              IF rec.capacity # 0 THEN 2 * rec.capacity ELSE 1, B)
                 ELSE { Outcome(rec, h, "ok") }
    IN  UNION { IF g.status # "ok" THEN {g}
                ELSE set_item(k, [g.self EXCEPT !.size = @ + 1], g.heap, g.self.size, x, B)
                : g \in grown }

\* pop_back without the test for an empty vector: --size_ on size_t
pop_back_unchecked(rec, h) ==
    { Outcome([rec EXCEPT !.size = (@ + SIZE_MAX) % 2^SIZE_BITS], h, "ok") }

\* pop_back()
pop_back(rec, h) ==
    { Outcome(IF rec.size # 0 THEN [rec EXCEPT !.size = @ - 1] ELSE rec, h, "ok") }

\* operator=(const&) for another object: the members are assigned first, the
\* array is then sized by size_ (not capacity_); if make_unique throws, the
\* assigned members stay.  Also the copy constructor ({ *this = other; }).
copy_assign(rec, other, h, B) ==
    LET assigned == [rec EXCEPT !.alive = TRUE, !.size = other.size,
                                !.capacity = other.capacity,
                                !.width = other.width, !.mask = other.mask]
        n == num_packs_required(assigned.size, assigned.width, B)
    IN  { IF m.status # "ok" THEN Outcome(assigned, h, m.status)
          ELSE LET done == copy_packs(Release(m.heap, rec.data), other.data, n, m.ptr)
               IN  Outcome([assigned EXCEPT !.data = m.ptr], done.heap, done.status)
          : m \in make_unique(h, n) }

\* operator=(const&) called with other being *this (v = v): the members are
\* assigned to themselves, data_ takes a new zeroed array and frees the old
\* one, and std::copy then reads other.data(), which is the new array.  A copy
\* of a range of trivially copyable packs onto itself leaves the range as it is.
copy_assign_self(rec, h, B) ==
    LET n == num_packs_required(rec.size, rec.width, B)
    IN  { IF m.status # "ok" THEN Outcome(rec, h, m.status)
          ELSE LET done == copy_packs(Release(m.heap, rec.data), m.ptr, n, m.ptr)
               IN  Outcome([rec EXCEPT !.data = m.ptr], done.heap, done.status)
          : m \in make_unique(h, n) }

\* operator=(&&) = default and the defaulted move constructor: memberwise
\* move; the scalars of the source are copied and stay, its unique_ptr is null
move_assign(rec, other, h) ==
    [self |-> [other EXCEPT !.alive = TRUE],
     other |-> [other EXCEPT !.data = Null],
     heap |-> Release(h, rec.data)]

(***************************************************************************)
(* The program: two vector objects of one class, used in any order.        *)
(***************************************************************************)

\* Largest size and capacity the program asks for
MaxCap == 2

\* The value the program stores, next to the zeroes of a fresh array
Items == {UINTMAX_MAX}

Nobody == "nobody"

\* The width of the program's vectors: the template argument width_, or the
\* width the program passes to PackedIntVector(size, width)
ProgramWidths(k, B) == IF k = "fixed" THEN Widths(B) ELSE {1, B}

\* How the last call ended; before the first call
NoCall == "none"

\* Addresses are compared for equality only, and after a call every live array
\* is owned by exactly one object: the state is kept up to a renaming of the
\* addresses, the array of the i-th object at address i.
Home(o) == IF o = "v" THEN 1 ELSE 2

Owners(vecs) == {o \in Objects : vecs[o].data # Null}

RenamedVec(vecs) ==
    [o \in Objects |-> IF vecs[o].data = Null THEN vecs[o]
                        ELSE [vecs[o] EXCEPT !.data = Home(o)]]

RenamedHeap(vecs, h) ==
    [a \in {Home(o) : o \in Owners(vecs)} |->
        h[vecs[CHOOSE o \in Owners(vecs) : Home(o) = a].data]]

\* The process goes on after a normal return and after a caught std::bad_alloc
Fault(status) == IF status \in {"ok", "bad_alloc"} THEN "none" ELSE status

\* o received a new value: it is no copy any more, and nothing is a copy of it
Forget(c, o) ==
    [q \in Objects |-> IF q = o \/ c[q] = o THEN Nobody ELSE c[q]]

Init ==
    /\ pack_bits \in PackBitsSet
    /\ kind \in {"fixed", "runtime"}
    /\ tparam_width \in ProgramWidths(kind, pack_bits)
    /\ vec = [o \in Objects |-> Unconstructed]
    /\ heap = << >>
    /\ fault = "none"
    /\ last = NoCall
    /\ copy_of = [o \in Objects |-> Nobody]
    /\ abstract = << >>
    /\ call = NotCalled /\ before = << >> /\ iters = NoIterators /\ walk = << >>
    /\ buf = << >> /\ buf_before = << >>
    /\ last_set = NoSet /\ last_get = NoGet /\ phase = "vector"

\* A member function of o returned, threw or ended the program
Return(o, out) ==
    /\ vec' = RenamedVec([vec EXCEPT ![o] = out.self])
    /\ heap' = RenamedHeap([vec EXCEPT ![o] = out.self], out.heap)
    /\ fault' = Fault(out.status)
    /\ last' = out.status
    /\ UNCHANGED <<pack_bits, codec_vars, trace_vars, kind, tparam_width, abstract>>

DefaultConstruct(o) ==
    /\ fault = "none" /\ ~vec[o].alive
    /\ Return(o, Outcome(DefaultVector(kind, tparam_width), heap, "ok"))
    /\ UNCHANGED copy_of

\* A constructor that throws constructs nothing
Construct(o, n) ==
    /\ fault = "none" /\ ~vec[o].alive
    /\ \E out \in Vector(kind, n, tparam_width, pack_bits, heap) :
          Return(o, IF out.status = "ok" THEN out ELSE Outcome(vec[o], out.heap, out.status))
    /\ UNCHANGED copy_of

Destroy(o) ==
    /\ fault = "none" /\ vec[o].alive
    /\ Return(o, Outcome(Unconstructed, Release(heap, vec[o].data), "ok"))
    /\ copy_of' = Forget(copy_of, o)

CopyConstruct(o, p) ==
    /\ fault = "none" /\ ~vec[o].alive /\ vec[p].alive /\ o # p
    /\ \E out \in copy_assign(vec[o], vec[p], heap, pack_bits) :
          /\ LET vecs == [vec EXCEPT ![o] = IF out.status = "bad_alloc" THEN @ ELSE out.self]
             IN  vec' = RenamedVec(vecs) /\ heap' = RenamedHeap(vecs, out.heap)
          /\ fault' = Fault(out.status)
          /\ last' = out.status
          /\ copy_of' = IF out.status = "ok" THEN [copy_of EXCEPT ![o] = p] ELSE copy_of
    /\ UNCHANGED <<pack_bits, codec_vars, trace_vars, kind, tparam_width, abstract>>

CopyAssign(o, p) ==
    /\ fault = "none" /\ vec[o].alive /\ vec[p].alive /\ o # p
    /\ \E out \in copy_assign(vec[o], vec[p], heap, pack_bits) :
          /\ vec' = RenamedVec([vec EXCEPT ![o] = out.self])
          /\ heap' = RenamedHeap([vec EXCEPT ![o] = out.self], out.heap)
          /\ fault' = Fault(out.status)
          /\ last' = out.status
          /\ copy_of' = IF out.status = "ok"
                        THEN [Forget(copy_of, o) EXCEPT ![o] = p]
                        ELSE Forget(copy_of, o)
    /\ UNCHANGED <<pack_bits, codec_vars, trace_vars, kind, tparam_width, abstract>>

MoveConstruct(o, p) ==
    /\ fault = "none" /\ ~vec[o].alive /\ vec[p].alive /\ o # p
    /\ LET out  == move_assign(vec[o], vec[p], heap)
           vecs == [vec EXCEPT ![o] = out.self, ![p] = out.other]
       IN  vec' = RenamedVec(vecs) /\ heap' = RenamedHeap(vecs, out.heap)
    /\ last' = "ok"
    /\ copy_of' = Forget(copy_of, p)
    /\ UNCHANGED <<pack_bits, codec_vars, trace_vars, kind, tparam_width, abstract, fault>>

MoveAssign(o, p) ==
    /\ fault = "none" /\ vec[o].alive /\ vec[p].alive /\ o # p
    /\ LET out  == move_assign(vec[o], vec[p], heap)
           vecs == [vec EXCEPT ![o] = out.self, ![p] = out.other]
       IN  vec' = RenamedVec(vecs) /\ heap' = RenamedHeap(vecs, out.heap)
    /\ last' = "ok"
    /\ copy_of' = Forget(Forget(copy_of, o), p)
    /\ UNCHANGED <<pack_bits, codec_vars, trace_vars, kind, tparam_width, abstract, fault>>

Set(o, i, x) ==
    /\ fault = "none" /\ vec[o].alive /\ i < vec[o].size
    /\ \E out \in set_item(kind, vec[o], heap, i, x, pack_bits) :
          Return(o, out)
    /\ UNCHANGED copy_of

Reserve(o, n) ==
    /\ fault = "none" /\ vec[o].alive
    /\ \E out \in reserve(kind, vec[o], heap, n, pack_bits) :
          Return(o, out)
    /\ UNCHANGED copy_of

ShrinkToFit(o) ==
    /\ fault = "none" /\ vec[o].alive
    /\ \E out \in shrink_to_fit(kind, vec[o], heap, pack_bits) :
          Return(o, out)
    /\ UNCHANGED copy_of

\* resize(size): the fixed kind's, and PackedIntVector's resize(size, width_)
Resize(o, n) ==
    /\ fault = "none" /\ vec[o].alive
    /\ \E out \in resize(kind, vec[o], heap, n, vec[o].width, pack_bits) :
          Return(o, out)
    /\ UNCHANGED copy_of

Clear(o) ==
    /\ fault = "none" /\ vec[o].alive
    /\ \E out \in clear(vec[o], heap) : Return(o, out)
    /\ UNCHANGED copy_of

\* push_back within the capacities the program asks for
PushBack(o, x) ==
    /\ fault = "none" /\ vec[o].alive
    /\ vec[o].size < vec[o].capacity \/ 2 * vec[o].capacity <= MaxCap
    /\ \E out \in push_back(kind, vec[o], heap, x, pack_bits) :
          Return(o, out)
    /\ UNCHANGED copy_of

PopBack(o) ==
    /\ fault = "none" /\ vec[o].alive
    /\ \E out \in pop_back(vec[o], heap) : Return(o, out)
    /\ UNCHANGED copy_of

Next ==
    \E o \in Objects :
        \/ DefaultConstruct(o)
        \/ \E n \in 0 .. MaxCap : Construct(o, n)
        \/ Destroy(o)
        \/ \E p \in Objects : CopyConstruct(o, p)
        \/ \E p \in Objects : CopyAssign(o, p)
        \/ \E p \in Objects : MoveConstruct(o, p)
        \/ \E p \in Objects : MoveAssign(o, p)
        \/ \E i \in 0 .. MaxCap - 1, x \in Items : Set(o, i, x)
        \/ \E n \in 0 .. MaxCap : Reserve(o, n)
        \/ ShrinkToFit(o)
        \/ \E n \in 0 .. MaxCap : Resize(o, n)
        \/ Clear(o)
        \/ \E x \in Items : PushBack(o, x)
        \/ PopBack(o)

Spec == Init /\ [][Next]_vars

(***************************************************************************)
(* One vector, used as a sequence: the operations of the append and        *)
(* pop_back tests, against the list of the values masked to the width.     *)
(***************************************************************************)

\* Largest capacity the sequence program reaches
SeqMaxCap == 4

\* The values the sequence program stores: odd, and even with high bits set
SeqItems == {1, UINTMAX_MAX - 1}

\* x masked to width bits
Masked(x, width) == x % 2^width

InitSeq ==
    /\ pack_bits \in PackBitsSet
    /\ kind \in {"fixed", "runtime"}
    /\ tparam_width \in Widths(pack_bits)
    /\ \E out \in Vector(kind, 0, tparam_width, pack_bits, << >>) :
          /\ vec = [o \in Objects |-> IF o = "v" THEN out.self ELSE Unconstructed]
          /\ heap = out.heap
    /\ fault = "none"
    /\ last = NoCall
    /\ copy_of = [o \in Objects |-> Nobody]
    /\ abstract = << >>
    /\ call = NotCalled /\ before = << >> /\ iters = NoIterators /\ walk = << >>
    /\ buf = << >> /\ buf_before = << >>
    /\ last_set = NoSet /\ last_get = NoGet /\ phase = "vector"

\* A member function of v returned or threw; the list follows a call that returned
ReturnSeq(out, list) ==
    /\ vec' = RenamedVec([vec EXCEPT !["v"] = out.self])
    /\ heap' = RenamedHeap([vec EXCEPT !["v"] = out.self], out.heap)
    /\ fault' = Fault(out.status)
    /\ last' = out.status
    /\ abstract' = IF out.status = "ok" THEN list ELSE abstract
    /\ UNCHANGED <<pack_bits, codec_vars, trace_vars, kind, tparam_width, copy_of>>

SeqPushBack(x) ==
    /\ fault = "none"
    /\ vec["v"].size < vec["v"].capacity \/ 2 * vec["v"].capacity <= SeqMaxCap
    /\ \E out \in push_back(kind, vec["v"], heap, x, pack_bits) :
          ReturnSeq(out, Append(abstract, Masked(x, tparam_width)))

SeqSet(i, x) ==
    /\ fault = "none" /\ i < vec["v"].size
    /\ \E out \in set_item(kind, vec["v"], heap, i, x, pack_bits) :
          ReturnSeq(out, [abstract EXCEPT ![i + 1] = Masked(x, tparam_width)])

SeqPopBack ==
    /\ fault = "none"
    /\ \E out \in pop_back(vec["v"], heap) :
          ReturnSeq(out, IF abstract = << >> THEN abstract
                         ELSE SubSeq(abstract, 1, Len(abstract) - 1))

SeqClear ==
    /\ fault = "none"
    /\ \E out \in clear(vec["v"], heap) : ReturnSeq(out, << >>)

SeqReserve(n) ==
    /\ fault = "none"
    /\ \E out \in reserve(kind, vec["v"], heap, n, pack_bits) : ReturnSeq(out, abstract)

SeqShrinkToFit ==
    /\ fault = "none"
    /\ \E out \in shrink_to_fit(kind, vec["v"], heap, pack_bits) : ReturnSeq(out, abstract)

NextSeq ==
    \/ \E x \in SeqItems : SeqPushBack(x)
    \/ \E i \in 0 .. SeqMaxCap - 1, x \in SeqItems : SeqSet(i, x)
    \/ SeqPopBack
    \/ SeqClear
    \/ \E n \in 0 .. SeqMaxCap : SeqReserve(n)
    \/ SeqShrinkToFit

SpecSeq == InitSeq /\ [][NextSeq]_vars

(***************************************************************************)
(* Properties of the vectors                                               *)
(***************************************************************************)

\* What get(i) returns for the elements of o; nothing where the read would
\* leave the array
Elements(o) ==
    [i \in 0 .. vec[o].size - 1 |->
        IF AccessStatus(kind, vec[o], heap, i, pack_bits) = "ok"
        THEN vector_get(kind, vec[o], heap, i, pack_bits)
        ELSE {}]

\* What a caller observes of o: size(), width() and the elements
Observed(o) == [size |-> vec[o].size, width |-> vec[o].width, items |-> Elements(o)]

\* The number of packs in the array o owns
BufferLength(o) ==
    IF vec[o].data = Null THEN 0 ELSE Cardinality(DOMAIN heap[vec[o].data])

\* C4: after any sequence of push_back, set, pop_back, clear, reserve and
\* shrink_to_fit on an empty vector, size() is the length of the list of
\* masked values built by the same operations, and get(i) is its i-th value.
C4_SequenceRefinement ==
    fault = "none" =>
        /\ vec["v"].size = Len(abstract)
        /\ \A i \in 0 .. vec["v"].size - 1 : Elements("v")[i] = {abstract[i + 1]}

\* C5: capacity() >= size() in every state of every vector, the targets and
\* the sources of copies and moves included.
C5_CapacityAtLeastSize ==
    \A o \in Objects : vec[o].alive => vec[o].capacity >= vec[o].size

\* C5 witness: a copy of a vector with spare capacity exists next to it after
\* a call returned, and both hold elements.
C5_Witness ==
    \E o \in Objects, p \in Objects :
        /\ copy_of[p] = o /\ last = "ok"
        /\ vec[o].size > 0 /\ vec[o].capacity > vec[o].size
        /\ vec[p].size > 0 /\ vec[p].capacity >= vec[p].size

\* C6: the array a vector owns holds exactly
\* num_packs_required(capacity(), width()) packs, in every state.
C6_BufferMatchesCapacity ==
    \A o \in Objects :
        vec[o].alive =>
            BufferLength(o) = num_packs_required(vec[o].capacity, vec[o].width, pack_bits)

\* A call of a mutator of o: set, push_back, pop_back, resize or clear
MutatorStep(o) ==
    \/ \E i \in 0 .. MaxCap - 1, x \in Items : Set(o, i, x)
    \/ \E x \in Items : PushBack(o, x)
    \/ PopBack(o)
    \/ \E n \in 0 .. MaxCap : Resize(o, n)
    \/ Clear(o)

\* C8: a copy that returned has the size, width and elements of its source
\* in an array of its own and leaves the source as it was; afterwards no
\* mutator of the copy changes what the original shows, nor the reverse.
C8_CopyIndependent ==
    [][\A o \in Objects : \A p \in Objects \ {o} :
          /\ (CopyConstruct(o, p) \/ CopyAssign(o, p)) /\ last' = "ok" =>
                /\ Observed(o)' = Observed(p)'
                /\ Observed(p)' = Observed(p)
                /\ vec'[o].data # vec'[p].data
          /\ (copy_of[o] = p \/ copy_of[p] = o) /\ MutatorStep(o) =>
                Observed(p)' = Observed(p)]_vars

\* C9: a move hands array, size, capacity and width to the target and leaves
\* the source empty: size() == 0, capacity() == 0, no array.
C9_MoveEmptiesSource ==
    [][\A o \in Objects : \A p \in Objects \ {o} :
          MoveConstruct(o, p) \/ MoveAssign(o, p) =>
              /\ vec'[o].size = vec[p].size /\ vec'[o].capacity = vec[p].capacity
              /\ vec'[o].width = vec[p].width
              /\ (vec[p].data # Null =>
                    vec'[o].data # Null /\ heap'[vec'[o].data] = heap[vec[p].data])
              /\ vec'[p].size = 0 /\ vec'[p].capacity = 0 /\ vec'[p].data = Null]_vars

\* C10: a call that ends in std::bad_alloc leaves every vector, the one it
\* was called on included, and every array as they were before the call.
C10_StrongErrorSafety ==
    [][last' = "bad_alloc" => vec' = vec /\ heap' = heap]_vars

(***************************************************************************)
(* One vector, every member function: each call is recorded with its       *)
(* arguments and with the members and the heap it found.                   *)
(***************************************************************************)

\* Largest size and capacity the one-vector program asks for
OneMaxCap == 2

\* size(), capacity(), width() of the vectors and empty() of IntContainer
vector_size(rec) == rec.size

vector_capacity(rec) == rec.capacity

vector_width(rec) == rec.width

vector_empty(rec) == vector_size(rec) = 0

\* What get(i) returns for the elements of a vector with members rec
ElementsOf(rec, h) ==
    [i \in 0 .. rec.size - 1 |->
        IF AccessStatus(kind, rec, h, i, pack_bits) = "ok"
        THEN vector_get(kind, rec, h, i, pack_bits)
        ELSE {}]

\* The array a vector with members rec owns, and its number of packs
ArrayOf(rec, h) == IF rec.data = Null THEN << >> ELSE h[rec.data]

ArrayLength(rec, h) == Cardinality(DOMAIN ArrayOf(rec, h))

InitOne ==
    /\ pack_bits \in PackBitsSet
    /\ kind \in {"fixed", "runtime"}
    /\ tparam_width \in Widths(pack_bits)
    /\ vec = [o \in Objects |-> Unconstructed]
    /\ heap = << >>
    /\ fault = "none"
    /\ last = NoCall
    /\ copy_of = [o \in Objects |-> Nobody]
    /\ abstract = << >>
    /\ call = NotCalled /\ before = [self |-> Unconstructed, heap |-> << >>]
    /\ iters = NoIterators /\ walk = << >>
    /\ buf = << >> /\ buf_before = << >>
    /\ last_set = NoSet /\ last_get = NoGet /\ phase = "vector"

\* The call op(n, x, width) on v returned, threw or ended the program
Called(op, n, x, w, outs) ==
    /\ fault = "none"
    /\ \E out \in outs :
          /\ vec' = RenamedVec([vec EXCEPT !["v"] = out.self])
          /\ heap' = RenamedHeap([vec EXCEPT !["v"] = out.self], out.heap)
          /\ fault' = Fault(out.status)
          /\ last' = out.status
    /\ call' = [op |-> op, n |-> n, x |-> x, width |-> w]
    /\ before' = [self |-> vec["v"], heap |-> heap]
    /\ UNCHANGED <<pack_bits, codec_vars, kind, tparam_width, copy_of, abstract,
                   iters, walk>>

OneDefaultConstruct ==
    /\ ~vec["v"].alive
    /\ Called("construct_default", 0, 0, 0,
              { Outcome(DefaultVector(kind, tparam_width), heap, "ok") })

OneConstruct(n) ==
    /\ ~vec["v"].alive
    /\ Called("construct", n, 0, tparam_width,
              { IF out.status = "ok" THEN out ELSE Outcome(vec["v"], out.heap, out.status)
                : out \in Vector(kind, n, tparam_width, pack_bits, heap) })

OneSet(i, x) ==
    /\ vec["v"].alive /\ i < vec["v"].size
    /\ Called("set", i, x, 0, set_item(kind, vec["v"], heap, i, x, pack_bits))

OnePushBack(x) ==
    /\ vec["v"].alive
    /\ vec["v"].size < vec["v"].capacity \/ 2 * vec["v"].capacity <= OneMaxCap
    /\ Called("push_back", 0, x, 0, push_back(kind, vec["v"], heap, x, pack_bits))

OnePopBack ==
    /\ vec["v"].alive
    /\ Called("pop_back", 0, 0, 0, pop_back(vec["v"], heap))

OneClear ==
    /\ vec["v"].alive
    /\ Called("clear", 0, 0, 0, clear(vec["v"], heap))

OneReserve(n) ==
    /\ vec["v"].alive
    /\ Called("reserve", n, 0, 0, reserve(kind, vec["v"], heap, n, pack_bits))

OneShrinkToFit ==
    /\ vec["v"].alive
    /\ Called("shrink_to_fit", 0, 0, 0, shrink_to_fit(kind, vec["v"], heap, pack_bits))

OneResize(n) ==
    /\ vec["v"].alive
    /\ Called("resize", n, 0, 0,
              resize(kind, vec["v"], heap, n, vec["v"].width, pack_bits))

\* PackedIntVector::resize(size_t size, size_t width) to another width
OneResizeWidth(n, w) ==
    /\ vec["v"].alive /\ kind = "runtime" /\ w # vec["v"].width
    /\ Called("resize_width", n, 0, w, resize(kind, vec["v"], heap, n, w, pack_bits))

NextOne ==
    \/ OneDefaultConstruct
    \/ \E n \in 0 .. OneMaxCap : OneConstruct(n)
    \/ \E i \in 0 .. OneMaxCap - 1, x \in SeqItems : OneSet(i, x)
    \/ \E x \in SeqItems : OnePushBack(x)
    \/ OnePopBack
    \/ OneClear
    \/ \E n \in 0 .. OneMaxCap : OneReserve(n)
    \/ OneShrinkToFit
    \/ \E n \in 0 .. OneMaxCap : OneResize(n)
    \/ \E n \in 0 .. OneMaxCap, w \in Widths(pack_bits) : OneResizeWidth(n, w)

SpecOne == InitOne /\ [][NextOne]_vars

(***************************************************************************)
(* Properties of the member functions, on the one-vector program           *)
(***************************************************************************)

\* The call op on v returned normally
Returned(op) == call.op = op /\ last = "ok"

\* The elements v showed before the last call
ElementsBefore == ElementsOf(before.self, before.heap)

\* The first n elements of v are the ones it showed before the last call
Preserved(n) ==
    \A i \in 0 .. n - 1 :
        /\ ElementsBefore[i] # {}
        /\ ElementsOf(vec["v"], heap)[i] = ElementsBefore[i]

\* Before the last call, v had a width of at least one bit, capacity_ >= size_
\* and an array of num_packs_required(capacity_, width_) packs
WellFormedBefore ==
    /\ before.self.alive /\ before.self.width > 0
    /\ before.self.capacity >= before.self.size
    /\ ArrayLength(before.self, before.heap) =
           num_packs_required(before.self.capacity, before.self.width, pack_bits)

\* C11: push_back(x) on a vector of size s and capacity c leaves size s + 1,
\* get(s) == x & low_mask(w), the elements below s as they were, and the
\* capacity c if s < c, 1 if s == c == 0, 2 * c if s == c > 0.
C11_PushBack ==
    Returned("push_back") /\ WellFormedBefore =>
        LET s == before.self.size
            c == before.self.capacity
        IN  /\ vector_size(vec["v"]) = s + 1
            /\ ElementsOf(vec["v"], heap)[s] = {And(call.x, low_mask(before.self.width))}
            /\ Preserved(s)
            /\ vector_capacity(vec["v"]) = IF s < c THEN c ELSE IF c = 0 THEN 1 ELSE 2 * c

\* C13: PackedIntVector::resize(n, w2) with w2 different from the width w1
\* leaves width() == w2, size() == n and, for every i < min(old size, n),
\* get(i) equal to the value get(i) returned before the call, masked to w2 bits.
C13_ResizeWidth ==
    Returned("resize_width") /\ before.self.alive =>
        /\ call.width # before.self.width
        /\ vector_width(vec["v"]) = call.width
        /\ vector_size(vec["v"]) = call.n
        /\ \A i \in 0 .. Min(before.self.size, call.n) - 1 :
              /\ ElementsBefore[i] # {}
              /\ ElementsOf(vec["v"], heap)[i] =
                     { And(old, low_mask(call.width)) : old \in ElementsBefore[i] }

\* C13 witness: a resize to a narrower width has truncated element 0, which
\* read 14 at width 4 and reads 2 at width 2.
C13_Witness ==
    /\ Returned("resize_width")
    /\ before.self.width = 4 /\ call.width = 2
    /\ before.self.size >= 1 /\ call.n >= 1
    /\ ElementsBefore[0] = {14}
    /\ ElementsOf(vec["v"], heap)[0] = {2}

\* The round trip of the resize test on a vector with members rec whose size
\* is its capacity n: resize(m) with m < n and then resize(n) keep the
\* capacity n and the elements below m
ResizeRoundTrip(rec, h) ==
    \A m \in 0 .. rec.size - 1 :
        \A a \in resize(kind, rec, h, m, rec.width, pack_bits) :
            /\ a.status = "ok" /\ a.self.size = m /\ a.self.capacity = rec.capacity
            /\ \A b \in resize(kind, a.self, a.heap, rec.size, rec.width, pack_bits) :
                  /\ b.status = "ok" /\ b.self.size = rec.size
                  /\ b.self.capacity = rec.capacity
                  /\ \A i \in 0 .. m - 1 :
                        ElementsOf(b.self, b.heap)[i] = ElementsOf(rec, h)[i]

\* C14: resize(m) with m <= capacity() sets size() to m and changes neither
\* the capacity nor a word of the buffer; with m > capacity() it sets size()
\* and capacity() to m and keeps get(i) for every i below the old size.  On a
\* vector of size n == capacity(), resize(m) with m < n followed by resize(n)
\* keeps capacity() == n and every element below m.
C14_ResizeSameWidth ==
    /\ Returned("resize") /\ WellFormedBefore =>
          /\ vector_size(vec["v"]) = call.n
          /\ vector_width(vec["v"]) = before.self.width
          /\ IF call.n <= before.self.capacity
             THEN /\ vector_capacity(vec["v"]) = before.self.capacity
                  /\ vec["v"].data = before.self.data
                  /\ heap = before.heap
             ELSE /\ vector_capacity(vec["v"]) = call.n
                  /\ Preserved(before.self.size)
    /\ fault = "none" /\ vec["v"].alive /\ vec["v"].width > 0
          /\ vec["v"].size = vec["v"].capacity =>
          ResizeRoundTrip(vec["v"], heap)

\* C14 witness: resize(2) on a vector of size and capacity 1 has reallocated,
\* and element 0 still reads the non-zero value written before.
C14_Witness ==
    /\ Returned("resize") /\ call.n = 2
    /\ before.self.size = 1 /\ before.self.capacity = 1
    /\ vector_capacity(vec["v"]) = 2
    /\ ElementsBefore[0] # {0}
    /\ ElementsOf(vec["v"], heap)[0] = ElementsBefore[0]

\* C15: reserve(k) with k > capacity() leaves capacity() == k, size() and
\* get(i) for every i < size() unchanged; with k <= capacity() it changes
\* neither size, capacity nor buffer.
C15_Reserve ==
    Returned("reserve") /\ WellFormedBefore =>
        /\ vector_size(vec["v"]) = before.self.size
        /\ vector_width(vec["v"]) = before.self.width
        /\ IF call.n > before.self.capacity
           THEN /\ vector_capacity(vec["v"]) = call.n
                /\ Preserved(before.self.size)
           ELSE /\ vec["v"] = before.self
                /\ heap = before.heap

\* C15 witness: reserve(2) has grown a vector of capacity 1 that holds a
\* non-zero element.
C15_Witness ==
    /\ Returned("reserve") /\ call.n = 2
    /\ before.self.capacity = 1 /\ before.self.size = 1
    /\ vector_capacity(vec["v"]) = 2
    /\ ElementsOf(vec["v"], heap)[0] # {0}

\* C16: shrink_to_fit() leaves capacity() == size(), size() and get(i) for
\* every i < size() unchanged; if capacity() == size() held before, nothing
\* changes.
C16_ShrinkToFit ==
    Returned("shrink_to_fit") /\ WellFormedBefore =>
        /\ vector_size(vec["v"]) = before.self.size
        /\ vector_capacity(vec["v"]) = vector_size(vec["v"])
        /\ vector_width(vec["v"]) = before.self.width
        /\ Preserved(before.self.size)
        /\ before.self.capacity = before.self.size =>
              vec["v"] = before.self /\ heap = before.heap

\* C16 witness: shrink_to_fit has reduced a capacity of 2 to the size 1 of a
\* vector whose element is not zero.
C16_Witness ==
    /\ Returned("shrink_to_fit")
    /\ before.self.size = 1 /\ before.self.capacity = 2
    /\ vector_capacity(vec["v"]) = 1
    /\ ElementsOf(vec["v"], heap)[0] # {0}

\* C17: pop_back() decreases size() by one if it is positive and changes
\* nothing if it is zero; capacity() and every bit of the buffer stay, get at
\* the popped index still returns the old value, and after the last element
\* is popped empty() is true.
C17_PopBack ==
    Returned("pop_back") /\ WellFormedBefore =>
        LET s == before.self.size
        IN  /\ vector_size(vec["v"]) = IF s > 0 THEN s - 1 ELSE 0
            /\ s = 0 => vec["v"] = before.self
            /\ vector_capacity(vec["v"]) = before.self.capacity
            /\ vec["v"].data = before.self.data
            /\ heap = before.heap
            /\ s > 0 => /\ ElementsBefore[s - 1] # {}
                        /\ vector_get(kind, vec["v"], heap, s - 1, pack_bits) =
                               ElementsBefore[s - 1]
            /\ s = 1 => vector_empty(vec["v"])

\* C17 witness: the only element, which is not zero, has been popped; the
\* vector is empty and its array still holds the element.
C17_Witness ==
    /\ Returned("pop_back") /\ WellFormedBefore /\ before.self.size = 1
    /\ vector_empty(vec["v"])
    /\ ElementsBefore[0] # {0}
    /\ vector_get(kind, vec["v"], heap, 0, pack_bits) = ElementsBefore[0]

\* C18: clear() sets size() to 0, so that empty() is true, and leaves
\* capacity(), width() and every word of the buffer as they were; the buffer
\* is not released.
C18_Clear ==
    Returned("clear") /\ WellFormedBefore =>
        /\ vector_size(vec["v"]) = 0
        /\ vector_empty(vec["v"])
        /\ vector_capacity(vec["v"]) = before.self.capacity
        /\ vector_width(vec["v"]) = before.self.width
        /\ vec["v"].data = before.self.data
        /\ heap = before.heap

\* C18 witness: a vector of two elements has been cleared and still owns its
\* array.
C18_Witness ==
    /\ Returned("clear") /\ before.self.size = 2
    /\ vector_capacity(vec["v"]) = 2 /\ ArrayLength(vec["v"], heap) >= 1

\* C19: Vector(n) and Vector(n, w) yield size() == n, capacity() == n and
\* width() == w with a buffer of num_packs_required(n, w) words; a
\* default-constructed vector has size() == 0 and capacity() == 0; empty() is
\* true exactly when size() == 0.
C19_Construction ==
    /\ Returned("construct") =>
          /\ vector_size(vec["v"]) = call.n
          /\ vector_capacity(vec["v"]) = call.n
          /\ vector_width(vec["v"]) = call.width
          /\ ArrayLength(vec["v"], heap) =
                 num_packs_required(call.n, call.width, pack_bits)
    /\ Returned("construct_default") =>
          /\ vector_size(vec["v"]) = 0
          /\ vector_capacity(vec["v"]) = 0
    /\ vec["v"].alive => (vector_empty(vec["v"]) <=> vector_size(vec["v"]) = 0)

\* C19 witness: a vector of two elements of less than a pack each has been
\* constructed; both fit into one pack.
C19_Witness ==
    /\ Returned("construct") /\ call.n = 2
    /\ 2 * call.width <= pack_bits
    /\ vector_size(vec["v"]) = 2 /\ ArrayLength(vec["v"], heap) = 1

(***************************************************************************)
(* The append test: push_back and nothing else on an empty vector          *)
(***************************************************************************)

\* Largest capacity the append program reaches
AppendMaxCap == 8

\* std::bit_ceil(n): the smallest power of two that is not below n
RECURSIVE BitCeilFrom(_, _)
BitCeilFrom(p, n) == IF p >= n THEN p ELSE BitCeilFrom(2 * p, n)

bit_ceil(n) == BitCeilFrom(1, n)

AppendPushBack(x) ==
    /\ fault = "none"
    /\ vec["v"].size < vec["v"].capacity \/ 2 * vec["v"].capacity <= AppendMaxCap
    /\ \E out \in push_back(kind, vec["v"], heap, x, pack_bits) :
          ReturnSeq(out, Append(abstract, Masked(x, tparam_width)))

NextAppend == \E x \in SeqItems : AppendPushBack(x)

SpecAppend == InitSeq /\ [][NextAppend]_vars

\* C12: after n >= 1 push_back calls on an empty vector (size 0, capacity 0)
\* and nothing else, size() == n and capacity() == bit_ceil(n).
C12_CapacityDoubling ==
    LET n == Len(abstract)
    IN  /\ vector_size(vec["v"]) = n
        /\ n >= 1 => vector_capacity(vec["v"]) = bit_ceil(n)

\* C12 witness: the fifth push_back has returned and the capacity is 8, the
\* growth steps 0 -> 1 -> 2 -> 4 -> 8 behind it.
C12_Witness ==
    /\ last = "ok" /\ Len(abstract) = 5
    /\ vector_size(vec["v"]) = 5 /\ vector_capacity(vec["v"]) = 8

(***************************************************************************)
(* Iterators: IntRef, IntIterator, begin() and end() of IntContainer      *)
(***************************************************************************)

\* Largest vector the iteration program constructs
IterMaxSize == 2

\* IntRef(container, index) / ConstIntRef(container, index)
IntRef(container, index) == [container |-> container, index |-> index]

\* bool operator==(IntRef const&) const = default: memberwise
ref_eq(r, s) == r.container = s.container /\ r.index = s.index

\* IntIterator<IntRef> { ref } (is_const: IntIterator<ConstIntRef>)
IntIterator(ref, is_const) == [ref |-> ref, is_const |-> is_const, live |-> TRUE]

NoIterator == [ref |-> IntRef(Nobody, 0), is_const |-> FALSE, live |-> FALSE]

\* An iterator comparison that looks at the index only
iter_eq_index_only(a, b) == a.ref.index = b.ref.index

\* bool operator==(IntIterator const&) const = default: memberwise
iter_eq(a, b) == ref_eq(a.ref, b.ref)

\* operator++(): ++ref.index on size_t
iter_inc(a) == [a EXCEPT !.ref.index = (@ + 1) % 2^SIZE_BITS]

\* operator--(): --ref.index on size_t
iter_dec(a) == [a EXCEPT !.ref.index = (@ + SIZE_MAX) % 2^SIZE_BITS]

\* begin() and begin() const of object o
begin(o, is_const) == IntIterator(IntRef(o, 0), is_const)

\* end() and end() const of object o
end(o, is_const) == IntIterator(IntRef(o, vector_size(vec[o])), is_const)

\* operator uintmax_t() of the proxy *a: container->get(index)
deref(a) == vector_get(kind, vec[a.ref.container], heap, a.ref.index, pack_bits)

IteratorNames == {"it", "jt"}

LiveIterators == { iters[name] : name \in {n \in IteratorNames : iters[n].live} }

InitIter ==
    /\ pack_bits \in PackBitsSet
    /\ kind \in {"fixed", "runtime"}
    /\ tparam_width \in Widths(pack_bits)
    /\ vec = [o \in Objects |-> Unconstructed]
    /\ heap = << >>
    /\ fault = "none"
    /\ last = NoCall
    /\ copy_of = [o \in Objects |-> Nobody]
    /\ abstract = << >>
    /\ call = NotCalled /\ before = << >>
    /\ iters = [it |-> NoIterator, jt |-> NoIterator, mode |-> "build"]
    /\ walk = << >>
    /\ buf = << >> /\ buf_before = << >>
    /\ last_set = NoSet /\ last_get = NoGet /\ phase = "vector"

\* The vectors are constructed and filled before any iterator exists
IterConstruct(o, n) ==
    /\ iters.mode = "build"
    /\ Construct(o, n)

IterSet(i, x) ==
    /\ iters.mode = "build"
    /\ Set("v", i, x)

\* An iterator variable takes a new value; every iterator of a run has the
\* same type (IntIterator<IntRef> or IntIterator<ConstIntRef>)
Iterate(name, a) ==
    /\ fault = "none" /\ iters.mode \in {"build", "iterate"}
    /\ \A o \in Objects : vec[o].alive
    /\ \A b \in LiveIterators : b.is_const = a.is_const
    /\ iters' = [iters EXCEPT ![name] = a, !.mode = "iterate"]
    /\ UNCHANGED <<pack_bits, codec_vars, vector_vars, call, before, walk>>

\* name = o.begin()
IterBegin(name, o, is_const) ==
    /\ vec[o].alive
    /\ Iterate(name, begin(o, is_const))

\* name = o.end()
IterEnd(name, o, is_const) ==
    /\ vec[o].alive
    /\ Iterate(name, end(o, is_const))

\* ++it, up to one step past the largest end() and from SIZE_MAX back to 0
IterInc ==
    /\ iters.it.live
    /\ iters.it.ref.index <= IterMaxSize \/ iters.it.ref.index = SIZE_MAX
    /\ Iterate("it", iter_inc(iters.it))

\* --it, down to 0 and from there to SIZE_MAX
IterDec ==
    /\ iters.it.live
    /\ iters.it.ref.index <= IterMaxSize + 1
    /\ Iterate("it", iter_dec(iters.it))

\* for(auto x : o): it = o.begin(), jt = o.end()
LoopStart(o, is_const) ==
    /\ fault = "none" /\ iters.mode = "build"
    /\ \A q \in Objects : vec[q].alive
    /\ iters' = [it |-> begin(o, is_const), jt |-> end(o, is_const), mode |-> "loop"]
    /\ walk' = << >>
    /\ UNCHANGED <<pack_bits, codec_vars, vector_vars, call, before>>

\* One round of the loop: it != jt, x = *it is read, ++it
LoopStep ==
    /\ fault = "none" /\ iters.mode = "loop"
    /\ ~iter_eq(iters.it, iters.jt)
    /\ LET a  == iters.it
           st == AccessStatus(kind, vec[a.ref.container], heap, a.ref.index, pack_bits)
       IN  IF st = "ok"
           THEN /\ \E x \in deref(a) : walk' = Append(walk, x)
                /\ iters' = [iters EXCEPT !.it = iter_inc(a)]
                /\ UNCHANGED fault
           ELSE /\ fault' = st
                /\ UNCHANGED <<iters, walk>>
    /\ UNCHANGED <<pack_bits, codec_vars, kind, tparam_width, vec, heap, last,
                   copy_of, abstract, call, before>>

NextIter ==
    \/ \E o \in Objects, n \in 0 .. IterMaxSize : IterConstruct(o, n)
    \/ \E i \in 0 .. IterMaxSize - 1, x \in SeqItems : IterSet(i, x)
    \/ \E name \in IteratorNames, o \in Objects, c \in BOOLEAN : IterBegin(name, o, c)
    \/ \E name \in IteratorNames, o \in Objects, c \in BOOLEAN : IterEnd(name, o, c)
    \/ IterInc
    \/ IterDec
    \/ \E o \in Objects, c \in BOOLEAN : LoopStart(o, c)
    \/ LoopStep

SpecIter == InitIter /\ [][NextIter]_vars

\* C20: two iterators are equal exactly when they bind the same container and
\* the same index; begin() binds index 0 and end() binds index size(), so
\* begin() == end() exactly when the vector is empty; decrement undoes
\* increment; a loop from begin() reaches end() after exactly size() steps
\* and yields get(0), ..., get(size() - 1) in that order, for mutable and
\* const iterators alike.
C20_Iteration ==
    fault = "none" /\ iters.mode \in {"iterate", "loop"} =>
        /\ \A a \in LiveIterators : \A b \in LiveIterators :
              /\ a.is_const = b.is_const
              /\ iter_eq(a, b) <=>
                     (a.ref.container = b.ref.container /\ a.ref.index = b.ref.index)
        /\ \A o \in Objects : \A c \in BOOLEAN :
              /\ begin(o, c).ref = IntRef(o, 0)
              /\ end(o, c).ref = IntRef(o, vector_size(vec[o]))
              /\ iter_eq(begin(o, c), end(o, c)) <=> vector_empty(vec[o])
        /\ \A a \in LiveIterators : iter_dec(iter_inc(a)) = a
        /\ iters.mode = "loop" =>
              LET o == iters.it.ref.container
              IN  /\ iters.jt = end(o, iters.it.is_const)
                  /\ iters.it.ref.index = Len(walk)
                  /\ Len(walk) <= vector_size(vec[o])
                  /\ iter_eq(iters.it, iters.jt) <=> Len(walk) = vector_size(vec[o])
                  /\ \A j \in 1 .. Len(walk) :
                        /\ ElementsOf(vec[o], heap)[j - 1] # {}
                        /\ walk[j] \in ElementsOf(vec[o], heap)[j - 1]

\* C20 witness: a loop over the const iterators of a vector of two different
\* elements has reached end() after two steps.
C20_Witness ==
    /\ iters.mode = "loop" /\ iters.it.is_const
    /\ iter_eq(iters.it, iters.jt)
    /\ Len(walk) = 2 /\ walk[1] # walk[2]

(***************************************************************************)
(* Proxies: operator[], front(), back() and *it of one vector              *)
(***************************************************************************)

\* operator[](size_t i) of object o: the proxy IntRef(*impl, i)
index_ref(o, i) == IntRef(o, i)

\* front() of object o
front(o) == IntRef(o, 0)

\* back() of object o: impl->size() - 1 on size_t
back(o) == IntRef(o, (vector_size(vec[o]) + SIZE_MAX) % 2^SIZE_BITS)

\* A conversion that returns what the element held when the proxy was taken
ref_value_at_creation(r) ==
    IF walk # << >> THEN {walk[1]}
    ELSE vector_get(kind, vec[r.container], heap, r.index, pack_bits)

\* operator uintmax_t() of a proxy: container->get(index), the values it can
\* return
ref_value(r) == vector_get(kind, vec[r.container], heap, r.index, pack_bits)

\* A proxy assignment whose write does not reach the vector's array
ref_assign_lost(r, x) == { Outcome(vec[r.container], heap, "ok") }

\* operator=(uintmax_t x) of a proxy: container->set(index, x)
ref_assign(r, x) == set_item(kind, vec[r.container], heap, r.index, x, pack_bits)

\* No proxy or iterator taken yet
NoHandle == [it |-> NoIterator, jt |-> NoIterator, mode |-> "none"]

\* The proxy in use: r itself, or *it of the iterator
Handle == iters.it.ref

InitProxy ==
    /\ pack_bits \in PackBitsSet
    /\ kind \in {"fixed", "runtime"}
    /\ tparam_width \in Widths(pack_bits)
    /\ vec = [o \in Objects |-> Unconstructed]
    /\ heap = << >>
    /\ fault = "none"
    /\ last = NoCall
    /\ copy_of = [o \in Objects |-> Nobody]
    /\ abstract = << >>
    /\ call = NotCalled /\ before = [self |-> Unconstructed, heap |-> << >>]
    /\ iters = NoHandle
    /\ walk = << >>
    /\ buf = << >> /\ buf_before = << >>
    /\ last_set = NoSet /\ last_get = NoGet /\ phase = "vector"

\* A proxy (mode "ref") or an iterator (mode "iterator") of v is taken; walk
\* keeps what get(index) returned and what the capacity was at that time
Take(op, mode, ref) ==
    /\ fault = "none" /\ vec["v"].alive /\ ref.index < vec["v"].size
    /\ iters' = [it |-> IntIterator(ref, FALSE), jt |-> NoIterator, mode |-> mode]
    /\ \E seen \in ref_value(ref) : walk' = <<seen, vector_capacity(vec["v"])>>
    /\ call' = [op |-> op, n |-> ref.index, x |-> 0, width |-> 0]
    /\ before' = [self |-> vec["v"], heap |-> heap]
    /\ last' = "ok"
    /\ UNCHANGED <<pack_bits, codec_vars, kind, tparam_width, vec, heap, fault,
                   copy_of, abstract>>

\* r = v[i]
ProxyIndex(i) ==
    /\ i < vec["v"].size
    /\ Take("index", "ref", index_ref("v", i))

\* r = v.front()
ProxyFront ==
    /\ vec["v"].size > 0
    /\ Take("front", "ref", front("v"))

\* r = v.back()
ProxyBack ==
    /\ vec["v"].size > 0
    /\ Take("back", "ref", back("v"))

\* it = v.begin()
ProxyBegin ==
    /\ vec["v"].size > 0
    /\ Take("begin", "iterator", begin("v", FALSE).ref)

\* ++it
ProxyInc ==
    /\ iters.mode = "iterator"
    /\ Take("inc", "iterator", iter_inc(iters.it).ref)

\* r = x, *it = x
ProxyAssign(x) ==
    /\ iters.mode # "none" /\ Handle.index < vec["v"].size
    /\ Called("ref_assign", Handle.index, x, 0, ref_assign(Handle, x))

\* x = r, x = *it
ProxyRead ==
    /\ fault = "none" /\ iters.mode # "none" /\ Handle.index < vec["v"].size
    /\ AccessStatus(kind, vec["v"], heap, Handle.index, pack_bits) = "ok"
    /\ \E x \in ref_value(Handle) :
          call' = [op |-> "ref_read", n |-> Handle.index, x |-> x, width |-> 0]
    /\ before' = [self |-> vec["v"], heap |-> heap]
    /\ last' = "ok"
    /\ UNCHANGED <<pack_bits, codec_vars, kind, tparam_width, vec, heap, fault,
                   copy_of, abstract, iters, walk>>

NextProxy ==
    \/ \E n \in 1 .. OneMaxCap : OneConstruct(n)
    \/ \E i \in 0 .. OneMaxCap - 1, x \in SeqItems : OneSet(i, x)
    \/ \E x \in SeqItems : OnePushBack(x)
    \/ \E n \in 0 .. OneMaxCap : OneReserve(n)
    \/ OneShrinkToFit
    \/ \E n \in 0 .. OneMaxCap : OneResize(n)
    \/ \E i \in 0 .. OneMaxCap - 1 : ProxyIndex(i)
    \/ ProxyFront
    \/ ProxyBack
    \/ ProxyBegin
    \/ ProxyInc
    \/ \E x \in SeqItems : ProxyAssign(x)
    \/ ProxyRead

SpecProxy == InitProxy /\ [][NextProxy]_vars

\* C21: for a proxy r = v[i], r = x has exactly the effect of v.set(i, x), and
\* converting r returns v.get(i) of the container's state at the time of the
\* conversion; front() and back() are the proxies of the indices 0 and
\* size() - 1.
C21_ReferenceProxy ==
    /\ Returned("index") => Handle = IntRef("v", call.n)
    /\ Returned("front") => Handle = IntRef("v", 0)
    /\ Returned("back") => Handle = IntRef("v", vector_size(vec["v"]) - 1)
    /\ Returned("ref_assign") /\ iters.mode = "ref" =>
          [self |-> vec["v"], heap |-> heap] \in
              { [self |-> out.self, heap |-> out.heap] :
                  out \in set_item(kind, before.self, before.heap, Handle.index,
                                   call.x, pack_bits) }
    /\ Returned("ref_read") /\ iters.mode = "ref" =>
          call.x \in vector_get(kind, vec["v"], heap, Handle.index, pack_bits)

\* C21 witness: the proxy was taken while its element read 0; after a later
\* write to that index, the conversion returns the later value.
C21_Witness ==
    /\ Returned("ref_read") /\ iters.mode = "ref"
    /\ walk[1] = 0 /\ call.x # 0

\* The capacity has changed since the proxy or iterator was taken: v has
\* moved to another array
Reallocated(capacity) == iters.mode # "none" /\ walk[2] # capacity

\* C27: a proxy or iterator for index i taken before a reallocating operation
\* (reserve, shrink_to_fit, growing resize, growing push_back) still reads
\* get(i) of the vector's current state and writes with set(i, .) into the
\* vector's current array, for every i < size().
C27_HandlesBindContainer ==
    /\ Returned("ref_read") /\ Reallocated(vector_capacity(vec["v"])) =>
          call.x \in vector_get(kind, vec["v"], heap, Handle.index, pack_bits)
    /\ Returned("ref_assign") /\ Reallocated(before.self.capacity) =>
          [self |-> vec["v"], heap |-> heap] \in
              { [self |-> out.self, heap |-> out.heap] :
                  out \in set_item(kind, before.self, before.heap, Handle.index,
                                   call.x, pack_bits) }

\* C27 witness: an iterator taken at capacity 1 has written a non-zero value
\* after the vector grew to capacity 2, and get reads that value.
C27_Witness ==
    /\ Returned("ref_assign") /\ iters.mode = "iterator"
    /\ walk[2] = 1 /\ before.self.capacity = 2
    /\ vector_get(kind, vec["v"], heap, Handle.index, pack_bits) # {0}

(***************************************************************************)
(* The helpers low_mask, low_mask0 and num_packs_required as functions of  *)
(* their arguments                                                         *)
(***************************************************************************)

\* The arguments: call.x is bits, call.n is num, call.width is width; walk
\* collects the results of the functions applied to them
InitUtil ==
    /\ pack_bits \in PackBitsSet
    /\ call \in [op : {"none"}, n : 0 .. SIZE_MAX, x : 0 .. UINTMAX_BITS,
                 width : 1 .. UINTMAX_BITS]
    /\ call.width <= pack_bits
    /\ walk = << >>
    /\ kind = "fixed" /\ tparam_width = call.width
    /\ vec = [o \in Objects |-> Unconstructed]
    /\ heap = << >>
    /\ fault = "none"
    /\ last = NoCall
    /\ copy_of = [o \in Objects |-> Nobody]
    /\ abstract = << >>
    /\ before = << >>
    /\ iters = NoIterators
    /\ buf = << >> /\ buf_before = << >>
    /\ last_set = NoSet /\ last_get = NoGet /\ phase = "vector"

\* The function f was applied to the arguments and returned r
Applied(f, r) ==
    /\ \A j \in 1 .. Len(walk) : walk[j].f # f
    /\ walk' = Append(walk, [f |-> f, r |-> r])
    /\ UNCHANGED <<pack_bits, codec_vars, vector_vars, call, before, iters>>

\* low_mask(bits), bits > 0
UtilLowMask ==
    /\ call.x >= 1
    /\ Applied("low_mask", low_mask(call.x))

\* low_mask0(bits), bits below the bits of uintmax_t
UtilLowMask0 ==
    /\ call.x < UINTMAX_BITS
    /\ Applied("low_mask0", low_mask0(call.x))

\* num_packs_required<Pack>(num, width)
UtilNumPacksRequired ==
    Applied("num_packs_required", num_packs_required(call.n, call.width, pack_bits))

NextUtil ==
    \/ UtilLowMask
    \/ UtilLowMask0
    \/ UtilNumPacksRequired

SpecUtil == InitUtil /\ [][NextUtil]_vars

\* The results in walk of the function f
ResultsOf(f) == { walk[j].r : j \in {k \in 1 .. Len(walk) : walk[k].f = f} }

\* C22: low_mask(bits) is 2^bits - 1 for every bits from 1 to the bits of
\* uintmax_t, all bits set at the upper end; low_mask0(bits) is 2^bits - 1 for
\* every bits from 0 to one less; the two agree where both are defined.
C22_MaskHelpers ==
    /\ \A r \in ResultsOf("low_mask") : r = 2^call.x - 1
    /\ \A r \in ResultsOf("low_mask0") : r = 2^call.x - 1
    /\ \A r \in ResultsOf("low_mask") : \A r0 \in ResultsOf("low_mask0") : r = r0

\* C22 witness: low_mask of the full width has returned UINTMAX_MAX.
C22_Witness ==
    /\ call.x = UINTMAX_BITS
    /\ ResultsOf("low_mask") = {UINTMAX_MAX}

\* C23: num_packs_required<Pack>(count, width) is ceil(count * width / B) for
\* every count of size_t and every width in 1 .. B, also where count * width
\* or count * width + B - 1 does not fit into size_t.
C23_NumPacksCeiling ==
    \A r \in ResultsOf("num_packs_required") :
        /\ r * pack_bits >= call.n * call.width
        /\ (r - 1) * pack_bits < call.n * call.width

(***************************************************************************)
(* The packs an access touches in an array of num_packs_required(n, w)     *)
(* packs (test_access_impl.hpp: Pack packs[num_packs_required(num, width)])*)
(***************************************************************************)

\* A count n >= 1, a width in 1 .. B, the variant of get and set in use
InitAccess ==
    /\ pack_bits \in PackBitsSet
    /\ call \in [op : {"none"}, n : 1 .. SIZE_MAX, x : {0}, width : 1 .. UINTMAX_BITS]
    /\ call.width <= pack_bits
    /\ walk = << >>
    /\ kind \in {"fixed", "runtime"} /\ tparam_width = call.width
    /\ vec = [o \in Objects |-> Unconstructed]
    /\ heap = << >>
    /\ fault = "none"
    /\ last = NoCall
    /\ copy_of = [o \in Objects |-> Nobody]
    /\ abstract = << >>
    /\ before = << >>
    /\ iters = NoIterators
    /\ buf = << >> /\ buf_before = << >>
    /\ last_set = NoSet /\ last_get = NoGet /\ phase = "vector"

\* The access op at index i reads or writes the packs of walk
Accessed(op, i) ==
    /\ call.op = "none"
    /\ i < call.n
    /\ call' = [call EXCEPT !.op = op, !.x = i]
    /\ walk' = <<PacksOf(kind, i, call.width, pack_bits)>>
    /\ UNCHANGED <<pack_bits, codec_vars, vector_vars, before, iters>>

\* get(data, i, width, mask) or get<width>(data, i) with i < n
AccessGet(i) ==
    /\ i \in 0 .. SIZE_MAX
    /\ Accessed("get", i)

\* set(data, i, x, width, mask) or set<width>(data, i, x) with i < n
AccessSet(i) ==
    /\ i \in 0 .. SIZE_MAX
    /\ Accessed("set", i)

NextAccess ==
    \/ \E i \in 0 .. SIZE_MAX : AccessGet(i)
    \/ \E i \in 0 .. SIZE_MAX : AccessSet(i)

SpecAccess == InitAccess /\ [][NextAccess]_vars

\* C25: for every count n >= 1, every width in 1 .. B and every index i < n,
\* every pack get and set read or write, the unconditional read of data[b]
\* included, has an index below num_packs_required(n, w).
C25_AccessInBounds ==
    call.op \in {"get", "set"} =>
        \A a \in walk[1] : a < num_packs_required(call.n, call.width, pack_bits)

\* Every pack of the array of v is 0, and get(i) is 0 for every i below n
ZeroFilled(n) ==
    /\ \A j \in DOMAIN ArrayOf(vec["v"], heap) : ArrayOf(vec["v"], heap)[j] = 0
    /\ \A i \in 0 .. n - 1 :
          /\ AccessStatus(kind, vec["v"], heap, i, pack_bits) = "ok"
          /\ vector_get(kind, vec["v"], heap, i, pack_bits) = {0}

\* No pack of the array v had before the last call was written: all are 0
UnwrittenBefore ==
    \A j \in DOMAIN ArrayOf(before.self, before.heap) :
        ArrayOf(before.self, before.heap)[j] = 0

OneCopyAssignSelf ==
    /\ vec["v"].alive
    /\ Called("copy_assign_self", 0, 0, 0, copy_assign_self(vec["v"], heap, pack_bits))

NextSelf ==
    \/ \E n \in 1 .. OneMaxCap : OneConstruct(n)
    \/ \E i \in 0 .. OneMaxCap - 1, x \in SeqItems : OneSet(i, x)
    \/ \E n \in 0 .. OneMaxCap : OneReserve(n)
    \/ OneCopyAssignSelf

SpecSelf == InitOne /\ [][NextSelf]_vars

\* C28: v = v leaves size(), capacity() and get(i) for every i < size() as
\* they were.
C28_SelfAssignment ==
    Returned("copy_assign_self") /\ WellFormedBefore =>
        /\ vector_size(vec["v"]) = vector_size(before.self)
        /\ vector_capacity(vec["v"]) = vector_capacity(before.self)
        /\ Preserved(vector_size(before.self))

(***************************************************************************)
(* packed_int_vector.hpp: pdinklag::PackedIntVector<uint64_t>, the vector  *)
(* with its own get and set.  Its pack word is as wide as uintmax_t.       *)
(***************************************************************************)

\* Number of integers in the vector of the program
LegacySize == 2

\* low_mask(num) of int_container_helpers.hpp:
\* ~((UINTMAX_MAX << (num - 1)) << 1), "num > 0 is assumed".  With num == 0
\* the first shift is by SIZE_MAX, which is undefined.
legacy_low_mask(num, ub) ==
    Not(ShlDefined(Shl(UINTMAX_MAX, (num + SIZE_MAX) % 2^SIZE_BITS, ub), 1))

\* pack_word_count<PackWord>(num, width)
pack_word_count(num, width, B) == idiv_ceil((num * width) % 2^SIZE_BITS, B)

\* PackedIntVector::get(size_t i)
legacy_get(data, i, width, mask, B, ub) ==
    LET j    == i * width
        a    == j \div B
        b    == (j + width - 1) \div B
        da   == j % B
        wa   == B - da
        a_hi == Shr(data[a], da)
        b_lo == data[b]
    IN  And(Or(Shl(b_lo, wa, ub), a_hi), mask)

\* PackedIntVector::set(size_t i, uintmax_t x)
legacy_set(data, i, x, width, mask, B, ub) ==
    LET v  == And(x, mask)
        j  == i * width
        a  == j \div B
        b  == (j + width - 1) \div B
    IN  IF a < b
        THEN LET da   == j % B
                 wa   == B - da
                 wb   == width - wa
                 a_lo == And(data[a], legacy_low_mask(da, ub))
                 v_lo == And(v, legacy_low_mask(wa, ub))
                 b_hi == Shr(data[b], wb)
                 v_hi == Shr(v, wa)
             IN  [data EXCEPT ![a] = ToPack(Or(ShlDefined(v_lo, da), a_lo), B),
                              ![b] = ToPack(Or(ShlDefined(b_hi, wb), v_hi), B)]
        ELSE LET dl      == j % B
                 xa      == data[a]
                 mask_lo == legacy_low_mask(dl, ub)
                 mask_hi == ShlDefined(Not(mask_lo), width)
             IN  [data EXCEPT ![a] = ToPack(Or(Or(And(xa, mask_lo), ShlDefined(v, dl)),
                                              And(xa, mask_hi)), B)]

\* PackedIntVector v(LegacySize, width), 0 < width < PACK_WORD_BITS: an array
\* of pack_word_count zeroed words
LegacyInit ==
    /\ pack_bits = UINTMAX_BITS
    /\ kind = "legacy"
    /\ tparam_width \in 1 .. UINTMAX_BITS - 1
    /\ buf = [k \in 0 .. pack_word_count(LegacySize, tparam_width, pack_bits) - 1 |-> 0]
    /\ buf_before = buf
    /\ last_set = NoSet
    /\ last_get = NoGet
    /\ phase = "fresh"
    /\ vec = << >>
    /\ heap = << >>
    /\ fault = "none"
    /\ last = << >>
    /\ copy_of = << >>
    /\ abstract = << >>
    /\ call = NotCalled /\ before = << >> /\ iters = NoIterators /\ walk = << >>

\* v.set(i, x)
LegacySet(i, x, ub) ==
    /\ i < LegacySize
    /\ buf' = legacy_set(buf, i, x, tparam_width, low_mask(tparam_width), pack_bits, ub)
    /\ buf_before' = buf
    /\ last_set' = [variant |-> "legacy", i |-> i, x |-> x, width |-> tparam_width]
    /\ last_get' = NoGet
    /\ phase' = "written"
    /\ UNCHANGED <<pack_bits, vector_vars, trace_vars>>

\* v.get(i) of the integer written by the last set
LegacyGet(i, ub) ==
    /\ phase = "written"
    /\ i = last_set.i
    /\ last_get' = [variant |-> "legacy", i |-> i, width |-> tparam_width,
                    result |-> legacy_get(buf, i, tparam_width, low_mask(tparam_width),
                                          pack_bits, ub)]
    /\ phase' = "read"
    /\ UNCHANGED <<pack_bits, buf, buf_before, last_set, vector_vars, trace_vars>>

LegacyNext ==
    \/ \E i \in 0 .. LegacySize - 1, x \in Values, ub \in ShiftModes : LegacySet(i, x, ub)
    \/ \E ub \in ShiftModes : LegacyGet(last_set.i, ub)

SpecLegacy == LegacyInit /\ [][LegacyNext]_vars

\* C30: on pdinklag::PackedIntVector<uint64_t> of a width from 1 to one less
\* than the bits of the pack word, get(i) after set(i, x) returns
\* x & low_mask(w) whatever the integer held before, also for an integer that
\* starts at a pack border: set(i, x); set(i, y); get(i) returns
\* y & low_mask(w).
C30_LegacyRoundTrip ==
    phase = "read" => last_get.result = And(last_set.x, low_mask(last_set.width))

====
